---- MODULE Spec2Model ----
(***************************************************************************)
(* Model of llm_client.LLMClient (src/llm_client/llm_client.py): the       *)
(* constructor, which reads the credentials, resolves the backend and the  *)
(* model name and prepares the provider client, and chat_completion, which *)
(* dispatches one call to the resolved backend; and of                     *)
(* LLMClientAdapter (src/llm_client/adapter.py), which hands the messages  *)
(* of llama_index to the chat_completion of an LLMClient.                  *)
(*                                                                         *)
(* Python values.  An optional value (None or a value) is a record:        *)
(* None is [some |-> FALSE] and a value v is [some |-> TRUE, v |-> v].     *)
(* A keyword argument that the caller leaves out is None in this encoding  *)
(* and takes the default of the signature.  Strings are TLA+ strings,      *)
(* except api_choice, which is a sequence of one-character strings so      *)
(* that str.lower() is computed character by character.  temperature is    *)
(* counted in tenths (0.7 is 7).  A call's keyword arguments are a record, *)
(* which has no order; every record is written with its fields in the      *)
(* order in which TLC keeps them.                                          *)
(***************************************************************************)
EXTENDS Integers, Sequences, FiniteSets, TLC

VARIABLES
    environ,        \* os.environ: OPENAI_API_KEY, GROQ_API_KEY, COLAB_GPU
    colab,          \* the hosted runtime: sys.modules entry, google.colab.userdata
    installed,      \* provider libraries whose import at module load succeeded
    phase,          \* "new", "constructed" or "failed"
    args,           \* the arguments LLMClient(...) was called with
    self,           \* the attributes of the instance
    ctor_error,     \* the exception __init__ raised, "" when none
    userdata_reads, \* the keys userdata.get was called with, in order
    invocations,    \* the chat_completion invocations, in order of entry
    backend_calls,  \* the calls issued to provider libraries, in order
    replies,        \* what the providers did with the calls
    adapter,        \* the LLMClientAdapter, None before it is constructed
    adapter_chats,  \* the LLMClientAdapter.chat invocations, in order of entry
    model_read      \* the outcome of the last read of LLMClientAdapter.model

adapterVars == <<adapter, adapter_chats, model_read>>

vars == <<environ, colab, installed, phase, args, self, ctor_error,
          userdata_reads, invocations, backend_calls, replies, adapter,
          adapter_chats, model_read>>

------------------------------------------------------------------------------
(* Python values *)

None == [some |-> FALSE]

Some(v) == [some |-> TRUE, v |-> v]

\* Python truthiness of an optional string: None and "" are falsy.
Truthy(x) == x.some /\ x.v # ""

UpperAlphabet == <<"A","B","C","D","E","F","G","H","I","J","K","L","M",
                   "N","O","P","Q","R","S","T","U","V","W","X","Y","Z">>

LowerAlphabet == <<"a","b","c","d","e","f","g","h","i","j","k","l","m",
                   "n","o","p","q","r","s","t","u","v","w","x","y","z">>

LowerChar(c) ==
    IF \E i \in DOMAIN UpperAlphabet : UpperAlphabet[i] = c
    THEN LowerAlphabet[CHOOSE i \in DOMAIN UpperAlphabet : UpperAlphabet[i] = c]
    ELSE c

\* A mutant of Lower: the value is kept as the caller wrote it.
LowerKeepsCase(s) == s

\* str.lower()
Lower(s) == [i \in DOMAIN s |-> LowerChar(s[i])]

OPENAI == <<"o","p","e","n","a","i">>

GROQ == <<"g","r","o","q">>

OLLAMA == <<"o","l","l","a","m","a">>

valid_choices == {OPENAI, GROQ, OLLAMA}

------------------------------------------------------------------------------
(* Step 1 and 2 of __init__: the credentials *)

OPENAI_API_KEY == "OPENAI_API_KEY"

GROQ_API_KEY == "GROQ_API_KEY"

\* The outcome of one userdata.get(key): the stored value, or an exception
\* of the secret store (raised when the secret does not exist or access to
\* it was not granted), which is no ImportError.
SecretValue(x) == [raises |-> FALSE, value |-> x]

SecretMissing == [raises |-> TRUE, value |-> None]

\* "google.colab" in sys.modules or "COLAB_GPU" in os.environ
ColabDetected(env, rt) == rt.in_sys_modules \/ env.COLAB_GPU

\* A mutant of SecondaryRead: the secret store is asked whatever the
\* environment gave, and its value is taken.
SecondaryReadAlways(current, key, rt) ==
    IF rt.userdata[key].raises
    THEN [value |-> current, read |-> TRUE, error |-> "SecretNotFoundError"]
    ELSE [value |-> rt.userdata[key].value, read |-> TRUE, error |-> ""]

\* if self.<key> is None: self.<key> = userdata.get(<KEY>)
SecondaryRead(current, key, rt) ==
    IF current.some
    THEN [value |-> current, read |-> FALSE, error |-> ""]
    ELSE IF rt.userdata[key].raises
         THEN [value |-> current, read |-> TRUE, error |-> "SecretNotFoundError"]
         ELSE [value |-> rt.userdata[key].value, read |-> TRUE, error |-> ""]

\* os.getenv for both keys, then the fallback to the hosted runtime.  env
\* is os.environ as os.getenv finds it, that is with the entries of the
\* secrets file that load_dotenv has added.  The
\* try block swallows ImportError alone: a failing import of
\* google.colab.userdata leaves both keys as read from the environment,
\* and an exception of userdata.get leaves __init__.
LoadCredentials(env, rt) ==
    LET o0 == env.OPENAI_API_KEY
        g0 == env.GROQ_API_KEY
        asIs == [error |-> "", openai_api_key |-> o0,
                 groq_api_key |-> g0, reads |-> <<>>]
    IN  IF o0.some /\ g0.some THEN asIs
        ELSE IF ~ColabDetected(env, rt) THEN asIs
        ELSE IF ~rt.userdata_importable THEN asIs
        ELSE LET ro == SecondaryRead(o0, OPENAI_API_KEY, rt)
                 rg == SecondaryRead(g0, GROQ_API_KEY, rt)
                 r1 == IF ro.read THEN <<OPENAI_API_KEY>> ELSE <<>>
                 r2 == IF rg.read THEN <<GROQ_API_KEY>> ELSE <<>>
             IN  IF ro.error # ""
                 THEN [error |-> ro.error, openai_api_key |-> o0,
                       groq_api_key |-> g0, reads |-> r1]
                 ELSE [error |-> rg.error,
                       openai_api_key |-> ro.value,
                       groq_api_key |-> IF rg.error # "" THEN g0 ELSE rg.value,
                       reads |-> r1 \o r2]

------------------------------------------------------------------------------
(* Step 3 of __init__: the backend *)

\* A mutant of AutoSelect: the Groq credential is looked at first.
AutoSelectGroqFirst(openai_api_key, groq_api_key) ==
    IF Truthy(groq_api_key) THEN GROQ
    ELSE IF Truthy(openai_api_key) THEN OPENAI
    ELSE OLLAMA

\* api_choice is None: OpenAI before Groq before Ollama
AutoSelect(openai_api_key, groq_api_key) ==
    IF Truthy(openai_api_key) THEN OPENAI
    ELSE IF Truthy(groq_api_key) THEN GROQ
    ELSE OLLAMA

\* A mutant of ResolveApiChoice: an explicit cloud backend whose credential
\* is missing is replaced by the automatic selection.
ResolveApiChoiceNeedsKey(api_choice, openai_api_key, groq_api_key) ==
    IF ~api_choice.some
    THEN [error |-> "", api_choice |-> AutoSelect(openai_api_key, groq_api_key)]
    ELSE IF Lower(api_choice.v) \notin valid_choices
         THEN [error |-> "ValueError", api_choice |-> <<>>]
         ELSE IF \/ Lower(api_choice.v) = OPENAI /\ ~Truthy(openai_api_key)
                 \/ Lower(api_choice.v) = GROQ /\ ~Truthy(groq_api_key)
              THEN [error |-> "",
                    api_choice |-> AutoSelect(openai_api_key, groq_api_key)]
              ELSE [error |-> "", api_choice |-> Lower(api_choice.v)]

\* The automatic selection, or the explicit choice in lower case; an
\* explicit choice outside valid_choices raises ValueError.
ResolveApiChoice(api_choice, openai_api_key, groq_api_key) ==
    IF ~api_choice.some
    THEN [error |-> "", api_choice |-> AutoSelect(openai_api_key, groq_api_key)]
    ELSE IF Lower(api_choice.v) \notin valid_choices
         THEN [error |-> "ValueError", api_choice |-> <<>>]
         ELSE [error |-> "", api_choice |-> Lower(api_choice.v)]

------------------------------------------------------------------------------
(* Step 4 of __init__: the model and the parameters *)

\* A mutant of DefaultModel: the defaults of the two cloud backends are
\* exchanged.
DefaultModelSwapped(api_choice) ==
    IF api_choice = OPENAI THEN "moonshotai/kimi-k2-instruct-0905"
    ELSE IF api_choice = GROQ THEN "gpt-4o-mini"
    ELSE "llama3.2:1b"

DefaultModel(api_choice) ==
    IF api_choice = OPENAI THEN "gpt-4o-mini"
    ELSE IF api_choice = GROQ THEN "moonshotai/kimi-k2-instruct-0905"
    ELSE "llama3.2:1b"

\* if llm: self.llm = llm, else the default of the backend
ResolveModel(llm, api_choice) ==
    IF Truthy(llm) THEN llm.v ELSE DefaultModel(api_choice)

\* temperature: float = 0.7, in tenths
DEFAULT_TEMPERATURE == 7

\* max_tokens: int = 512
DEFAULT_MAX_TOKENS == 512

\* keep_alive: str = "5m"
DEFAULT_KEEP_ALIVE == "5m"

\* The value a keyword argument is bound to: the caller's, or the default
\* of the signature.
Bind(arg, default) == IF arg.some THEN arg.v ELSE default

\* A mutant of StoreTemperature: the value is clamped to [0.0, 2.0].
StoreTemperatureClamped(temperature) ==
    IF temperature < 0 THEN 0 ELSE IF temperature > 20 THEN 20 ELSE temperature

\* self.temperature = temperature
StoreTemperature(temperature) == temperature

\* self.max_tokens = max_tokens
StoreMaxTokens(max_tokens) == max_tokens

\* self.keep_alive = keep_alive
StoreKeepAlive(keep_alive) == keep_alive

------------------------------------------------------------------------------
(* Step 5 of __init__: the provider client *)

\* The object OpenAI(api_key=...) or Groq(api_key=...) returns.
ProviderClient(provider, api_key) ==
    Some([provider |-> provider, api_key |-> api_key])

\* The provider's constructor is called for a cloud backend whose library
\* is installed, whatever the credential.
CtorCalled(api_choice, libs) ==
    \/ api_choice = OPENAI /\ "openai" \in libs
    \/ api_choice = GROQ /\ "groq" \in libs

\* The api_key the provider's constructor is called with.
CtorKey(api_choice, openai_api_key, groq_api_key) ==
    IF api_choice = OPENAI THEN openai_api_key ELSE groq_api_key

\* What the call of the provider's constructor can do: return a client,
\* or, when it is given no key, raise (the tests set a dummy key "damit
\* OpenAI-Client-Initialisierung nicht fehlschlaegt").
CtorOutcomes(api_key) ==
    IF api_key.some THEN {"client"} ELSE {"client", "ProviderInitError"}

\* self.client: None, or the client of the chosen cloud backend when its
\* library is installed.
PrepareClient(api_choice, libs, openai_api_key, groq_api_key) ==
    IF api_choice = OPENAI /\ "openai" \in libs
    THEN ProviderClient("openai", openai_api_key)
    ELSE IF api_choice = GROQ /\ "groq" \in libs
    THEN ProviderClient("groq", groq_api_key)
    ELSE None

------------------------------------------------------------------------------
(* The environment and the arguments the model draws from *)

EnvOpenAIKeys == {None, Some(""), Some("sk-env")}

EnvGroqKeys == {None, Some(""), Some("gsk-env")}

NoSecrets == [OPENAI_API_KEY |-> SecretMissing, GROQ_API_KEY |-> SecretMissing]

\* The hosted runtime, with the COLAB_GPU entry of os.environ: outside the
\* runtime; the COLAB_GPU marker alone, where google.colab.userdata cannot
\* be imported; the runtime with both secrets stored; the runtime with the
\* OpenAI secret stored and None for the Groq secret; the runtime with no
\* secret stored.
HostedRuntimes ==
    { [in_sys_modules |-> FALSE, COLAB_GPU |-> FALSE,
       userdata |-> NoSecrets, userdata_importable |-> FALSE],
      [in_sys_modules |-> FALSE, COLAB_GPU |-> TRUE,
       userdata |-> NoSecrets, userdata_importable |-> FALSE],
      [in_sys_modules |-> TRUE, COLAB_GPU |-> TRUE,
       userdata |-> [OPENAI_API_KEY |-> SecretValue(Some("sk-colab")),
                     GROQ_API_KEY |-> SecretValue(Some("gsk-colab"))],
       userdata_importable |-> TRUE],
      [in_sys_modules |-> TRUE, COLAB_GPU |-> FALSE,
       userdata |-> [OPENAI_API_KEY |-> SecretValue(Some("sk-colab")),
                     GROQ_API_KEY |-> SecretValue(None)],
       userdata_importable |-> TRUE],
      [in_sys_modules |-> TRUE, COLAB_GPU |-> TRUE,
       userdata |-> NoSecrets, userdata_importable |-> TRUE] }

Libraries == {"openai", "groq", "ollama"}

\* api_choice: left out, the identifiers in several cases, and values
\* outside the valid set
ApiChoiceArgs ==
    { None,
      Some(<<"o","l","l","a","m","a">>),
      Some(<<"O","P","E","N","A","I">>),
      Some(<<"G","r","o","q">>),
      Some(<<"O","l","L","a","M","a">>),
      Some(<<"i","n","v","a","l","i","d","_","a","p","i">>),
      Some(<<>>) }

\* llm, temperature, max_tokens and keep_alive: all left out; the empty
\* model name; a model name and a temperature; the smallest values; values
\* outside the documented ranges
ModelArgs ==
    { [llm |-> None, temperature |-> None, max_tokens |-> None,
       keep_alive |-> None],
      [llm |-> Some(""), temperature |-> None, max_tokens |-> None,
       keep_alive |-> None],
      [llm |-> Some("gpt-4o"), temperature |-> Some(5), max_tokens |-> None,
       keep_alive |-> None],
      [llm |-> None, temperature |-> Some(0), max_tokens |-> Some(1),
       keep_alive |-> Some("10m")],
      [llm |-> Some("gpt-4o"), temperature |-> Some(25),
       max_tokens |-> Some(100000), keep_alive |-> Some("")] }

NoArgs == [api_choice |-> None, llm |-> None, temperature |-> None,
           max_tokens |-> None, keep_alive |-> None]

\* The attributes before __init__ has run, and after it has raised.
NoInstance == [exists |-> FALSE]

------------------------------------------------------------------------------
(* The state after the module is loaded *)

Init ==
    /\ \E o \in EnvOpenAIKeys, g \in EnvGroqKeys, rt \in HostedRuntimes :
          /\ environ = [OPENAI_API_KEY |-> o, GROQ_API_KEY |-> g,
                        COLAB_GPU |-> rt.COLAB_GPU]
          /\ colab = [in_sys_modules |-> rt.in_sys_modules,
                      userdata |-> rt.userdata,
                      userdata_importable |-> rt.userdata_importable]
    /\ installed \in SUBSET Libraries
    /\ phase = "new"
    /\ args = NoArgs
    /\ self = NoInstance
    /\ ctor_error = ""
    /\ userdata_reads = <<>>
    /\ invocations = <<>>
    /\ backend_calls = <<>>
    /\ replies = {}
    /\ adapter = None
    /\ adapter_chats = <<>>
    /\ model_read = None

\* The process outside the hosted runtime.
PlainInit == Init /\ ~ColabDetected(environ, colab)

------------------------------------------------------------------------------
(* LLMClient.__init__ *)

\* The attributes at the end of __init__.
Instance(a, cred, api_choice, libs) ==
    [openai_api_key |-> cred.openai_api_key,
     groq_api_key |-> cred.groq_api_key,
     api_choice |-> api_choice,
     llm |-> ResolveModel(a.llm, api_choice),
     temperature |-> StoreTemperature(Bind(a.temperature, DEFAULT_TEMPERATURE)),
     max_tokens |-> StoreMaxTokens(Bind(a.max_tokens, DEFAULT_MAX_TOKENS)),
     keep_alive |-> StoreKeepAlive(Bind(a.keep_alive, DEFAULT_KEEP_ALIVE)),
     client |-> PrepareClient(api_choice, libs, cred.openai_api_key,
                              cred.groq_api_key)]

ConstructFails(a, cred, error) ==
    /\ phase' = "failed"
    /\ args' = a
    /\ self' = NoInstance
    /\ ctor_error' = error
    /\ userdata_reads' = cred.reads
    /\ UNCHANGED <<environ, colab, installed, invocations, backend_calls,
                   replies, adapterVars>>

Construct(a) ==
    LET cred == LoadCredentials(environ, colab)
        res == ResolveApiChoice(a.api_choice, cred.openai_api_key,
                                cred.groq_api_key)
    IN  /\ phase = "new"
        /\ IF cred.error # "" THEN ConstructFails(a, cred, cred.error)
           ELSE IF res.error # "" THEN ConstructFails(a, cred, res.error)
           ELSE \E outcome \in
                    IF CtorCalled(res.api_choice, installed)
                    THEN CtorOutcomes(CtorKey(res.api_choice, cred.openai_api_key,
                                              cred.groq_api_key))
                    ELSE {"not called"} :
                  IF outcome = "ProviderInitError"
                  THEN ConstructFails(a, cred, outcome)
                  ELSE /\ phase' = "constructed"
                       /\ args' = a
                       /\ self' = Instance(a, cred, res.api_choice, installed)
                       /\ ctor_error' = ""
                       /\ userdata_reads' = cred.reads
                       /\ UNCHANGED <<environ, colab, installed, invocations,
                                      backend_calls, replies, adapterVars>>

NewClient ==
    \E api_choice \in ApiChoiceArgs, m \in ModelArgs :
        Construct([api_choice |-> api_choice, llm |-> m.llm,
                   temperature |-> m.temperature, max_tokens |-> m.max_tokens,
                   keep_alive |-> m.keep_alive])

\* The construction alone: one LLMClient(...) in every environment.
ConstructionNext == NewClient

ConstructionSpec == Init /\ [][ConstructionNext]_vars

------------------------------------------------------------------------------
(* LLMClient.chat_completion *)

\* The number of chat_completion invocations of a run
MaxCalls == 2

SystemMessage == [role |-> "system", content |-> "You are helpful."]

UserMessage == [role |-> "user", content |-> "Hello!"]

MessageLists == {<<>>, <<SystemMessage, UserMessage>>}

\* What the provider answers with
Completions == {"Hi.", " Hi. "}

\* What the provider's call raises: an error of the provider's library
ProviderExceptions == {"RateLimitError"}

\* A mutant of Precheck: the ollama branch goes to the call unchecked.
PrecheckSkipsOllama(obj, libs) ==
    IF obj.api_choice \in {OPENAI, GROQ}
    THEN IF ~obj.client.some THEN "RuntimeError" ELSE ""
    ELSE IF obj.api_choice = OLLAMA THEN "" ELSE "ValueError"

\* A mutant of Precheck: a backend that is not known is taken for ollama.
PrecheckFallsBackToOllama(obj, libs) ==
    IF obj.api_choice \in {OPENAI, GROQ}
    THEN IF ~obj.client.some THEN "RuntimeError" ELSE ""
    ELSE IF "ollama" \notin libs THEN "RuntimeError" ELSE ""

\* The check before the call: the exception chat_completion raises without
\* calling the backend, "" when it goes on to the call.
Precheck(obj, libs) ==
    IF obj.api_choice = OPENAI
    THEN IF ~obj.client.some THEN "RuntimeError" ELSE ""
    ELSE IF obj.api_choice = GROQ
    THEN IF ~obj.client.some THEN "RuntimeError" ELSE ""
    ELSE IF obj.api_choice = OLLAMA
    THEN IF "ollama" \notin libs THEN "RuntimeError" ELSE ""
    ELSE "ValueError"

\* A mutant of BackendCall: keep_alive goes to every backend.
BackendCallKeepAliveEverywhere(obj, messages) ==
    IF obj.api_choice \in {OPENAI, GROQ}
    THEN [client |-> obj.client,
          function |-> "client.chat.completions.create",
          kwargs |-> [temperature |-> obj.temperature,
                      max_tokens |-> obj.max_tokens,
                      keep_alive |-> obj.keep_alive,
                      messages |-> messages,
                      model |-> obj.llm]]
    ELSE [client |-> None,
          function |-> "ollama.chat",
          kwargs |-> [keep_alive |-> obj.keep_alive,
                      messages |-> messages,
                      model |-> obj.llm,
                      stream |-> FALSE,
                      options |-> [temperature |-> obj.temperature,
                                   num_predict |-> obj.max_tokens,
                                   repeat_penalty |-> 12,
                                   top_k |-> 10,
                                   top_p |-> 5]]]

\* A mutant of BackendCall: the messages are handed over newest first.
BackendCallReversed(obj, messages) ==
    LET reversed == [i \in 1..Len(messages) |-> messages[Len(messages) + 1 - i]]
    IN  IF obj.api_choice \in {OPENAI, GROQ}
        THEN [client |-> obj.client,
              function |-> "client.chat.completions.create",
              kwargs |-> [temperature |-> obj.temperature,
                          max_tokens |-> obj.max_tokens,
                          messages |-> reversed,
                          model |-> obj.llm]]
        ELSE [client |-> None,
              function |-> "ollama.chat",
              kwargs |-> [keep_alive |-> obj.keep_alive,
                          messages |-> reversed,
                          model |-> obj.llm,
                          stream |-> FALSE,
                          options |-> [temperature |-> obj.temperature,
                                       num_predict |-> obj.max_tokens,
                                       repeat_penalty |-> 12,
                                       top_k |-> 10,
                                       top_p |-> 5]]]

\* The call chat_completion issues: client.chat.completions.create(...) for
\* openai and groq, ollama.chat(...) for ollama.  0.5 and 1.2 are in tenths.
BackendCall(obj, messages) ==
    IF obj.api_choice \in {OPENAI, GROQ}
    THEN [client |-> obj.client,
          function |-> "client.chat.completions.create",
          kwargs |-> [temperature |-> obj.temperature,
                      max_tokens |-> obj.max_tokens,
                      messages |-> messages,
                      model |-> obj.llm]]
    ELSE [client |-> None,
          function |-> "ollama.chat",
          kwargs |-> [keep_alive |-> obj.keep_alive,
                      messages |-> messages,
                      model |-> obj.llm,
                      stream |-> FALSE,
                      options |-> [temperature |-> obj.temperature,
                                   num_predict |-> obj.max_tokens,
                                   repeat_penalty |-> 12,
                                   top_k |-> 10,
                                   top_p |-> 5]]]

\* The response of the provider to a call.
Response(function, content) ==
    IF function = "ollama.chat"
    THEN [message |-> [role |-> "assistant", content |-> content]]
    ELSE [choices |-> <<[message |-> [role |-> "assistant",
                                      content |-> content]]>>]

\* A mutant of Extract: the role of the message is taken for its content.
ExtractRole(function, response) ==
    IF function = "ollama.chat"
    THEN response.message.role
    ELSE response.choices[1].message.role

\* response.choices[0].message.content, response["message"]["content"]
Extract(function, response) ==
    IF function = "ollama.chat"
    THEN response.message.content
    ELSE response.choices[1].message.content

\* The function the call of invocation i went to.
FunctionOf(i) ==
    (CHOOSE c \in {backend_calls[k] : k \in DOMAIN backend_calls} :
        c.invocation = i).call.function

------------------------------------------------------------------------------
(* LLMClientAdapter: the values *)

\* llama_index's ChatMessage
ChatMessage(role, content) ==
    [role |-> role, content |-> content, additional_kwargs |-> <<>>]

ChatMessageLists ==
    {<<>>, <<ChatMessage("user", "Hello"), ChatMessage("assistant", "Hi")>>}

\* A mutant of ToDict: the two values change places.
ToDictSwapped(m) == [role |-> m.content, content |-> m.role]

\* {"role": m.role, "content": m.content}
ToDict(m) == [role |-> m.role, content |-> m.content]

\* hf_messages = [{"role": m.role, "content": m.content} for m in messages]
ToDicts(messages) == [j \in 1..Len(messages) |-> ToDict(messages[j])]

\* ChatResponse(message=ChatMessage(role="assistant", content=response))
ChatResponse(response) == [message |-> ChatMessage("assistant", response)]

\* LLMClientAdapter.chat after self.client.chat_completion has ended as the
\* invocation inv records: the exception passes through, the returned
\* string is wrapped.
AdapterChatEnds(chat, inv) ==
    IF inv.status = "raised"
    THEN [chat EXCEPT !.error = inv.error, !.status = "raised"]
    ELSE [chat EXCEPT !.status = "returned",
                      !.response = Some(ChatResponse(inv.result.v))]

\* The LLMClientAdapter.chat invocations once invocation i of
\* chat_completion has ended as inv: the one that called it goes on.
AdapterContinues(chats, i, inv) ==
    [k \in 1..Len(chats) |->
        IF chats[k].invocation = i THEN AdapterChatEnds(chats[k], inv)
        ELSE chats[k]]

------------------------------------------------------------------------------
(* LLMClient.chat_completion: the steps *)

\* chat_completion up to the call of the backend: it raises, or the call
\* is issued and the invocation waits for the provider.
ChatCompletion(messages) ==
    /\ phase = "constructed"
    /\ Len(invocations) < MaxCalls
    /\ LET error == Precheck(self, installed)
           id == Len(invocations) + 1
       IN  IF error # ""
           THEN /\ invocations' = Append(invocations,
                        [error |-> error, messages |-> messages,
                         status |-> "raised", result |-> None])
                /\ UNCHANGED backend_calls
           ELSE /\ invocations' = Append(invocations,
                        [error |-> "", messages |-> messages,
                         status |-> "calling", result |-> None])
                /\ backend_calls' = Append(backend_calls,
                        [invocation |-> id, call |-> BackendCall(self, messages)])
    /\ UNCHANGED <<environ, colab, installed, phase, args, self, ctor_error,
                   userdata_reads, replies>>

\* A caller invokes chat_completion.
BeginChat(messages) ==
    /\ ChatCompletion(messages)
    /\ UNCHANGED adapterVars

\* A mutant of ChatReturns: the response is kept where every invocation
\* that waits finds it, and each of them returns its content.
ChatReturnsSharedResponse(i, content) ==
    /\ i \in DOMAIN invocations
    /\ invocations[i].status = "calling"
    /\ LET response == Response(FunctionOf(i), content)
       IN  /\ replies' = replies \cup
                   {[response |-> Some(response), invocation |-> i,
                     exception |-> ""]}
           /\ invocations' = [j \in 1..Len(invocations) |->
                   IF invocations[j].status = "calling"
                   THEN [invocations[j] EXCEPT
                           !.status = "returned",
                           !.result = Some(Extract(FunctionOf(i), response))]
                   ELSE invocations[j]]
    /\ adapter_chats' = AdapterContinues(adapter_chats, i, invocations'[i])
    /\ UNCHANGED <<environ, colab, installed, phase, args, self, ctor_error,
                   userdata_reads, backend_calls, adapter, model_read>>

\* The provider answers the call of invocation i: chat_completion returns
\* the content of the response to its caller.
ChatReturns(i, content) ==
    /\ i \in DOMAIN invocations
    /\ invocations[i].status = "calling"
    /\ LET response == Response(FunctionOf(i), content)
       IN  /\ replies' = replies \cup
                   {[response |-> Some(response), invocation |-> i,
                     exception |-> ""]}
           /\ invocations' = [invocations EXCEPT
                   ![i].status = "returned",
                   ![i].result = Some(Extract(FunctionOf(i), response))]
    /\ adapter_chats' = AdapterContinues(adapter_chats, i, invocations'[i])
    /\ UNCHANGED <<environ, colab, installed, phase, args, self, ctor_error,
                   userdata_reads, backend_calls, adapter, model_read>>

\* A mutant of ChatRaises: the call is issued a second time before the
\* exception leaves chat_completion.
ChatRaisesAfterRetry(i, exception) ==
    /\ i \in DOMAIN invocations
    /\ invocations[i].status = "calling"
    /\ replies' = replies \cup
            {[response |-> None, invocation |-> i, exception |-> exception]}
    /\ backend_calls' = Append(backend_calls,
            [invocation |-> i,
             call |-> BackendCall(self, invocations[i].messages)])
    /\ invocations' = [invocations EXCEPT
            ![i].status = "raised", ![i].error = exception]
    /\ adapter_chats' = AdapterContinues(adapter_chats, i, invocations'[i])
    /\ UNCHANGED <<environ, colab, installed, phase, args, self, ctor_error,
                   userdata_reads, adapter, model_read>>

\* A mutant of ChatRaises: the provider client is dropped after a failure.
ChatRaisesDropsClient(i, exception) ==
    /\ i \in DOMAIN invocations
    /\ invocations[i].status = "calling"
    /\ replies' = replies \cup
            {[response |-> None, invocation |-> i, exception |-> exception]}
    /\ invocations' = [invocations EXCEPT
            ![i].status = "raised", ![i].error = exception]
    /\ adapter_chats' = AdapterContinues(adapter_chats, i, invocations'[i])
    /\ self' = [self EXCEPT !.client = None]
    /\ UNCHANGED <<environ, colab, installed, phase, args, ctor_error,
                   userdata_reads, backend_calls, adapter, model_read>>

\* The call of invocation i raises: the exception leaves chat_completion.
ChatRaises(i, exception) ==
    /\ i \in DOMAIN invocations
    /\ invocations[i].status = "calling"
    /\ replies' = replies \cup
            {[response |-> None, invocation |-> i, exception |-> exception]}
    /\ invocations' = [invocations EXCEPT
            ![i].status = "raised", ![i].error = exception]
    /\ adapter_chats' = AdapterContinues(adapter_chats, i, invocations'[i])
    /\ UNCHANGED <<environ, colab, installed, phase, args, self, ctor_error,
                   userdata_reads, backend_calls, adapter, model_read>>

Next ==
    \/ NewClient
    \/ \E messages \in MessageLists : BeginChat(messages)
    \/ \E i \in 1..MaxCalls, content \in Completions : ChatReturns(i, content)
    \/ \E i \in 1..MaxCalls, exception \in ProviderExceptions :
          ChatRaises(i, exception)

Spec == Init /\ [][Next]_vars

\* The same steps outside the hosted runtime, where the credentials are
\* those of the environment.
ChatSpec == PlainInit /\ [][Next]_vars

------------------------------------------------------------------------------
(* LLMClientAdapter: the steps *)

\* client: Optional[LLMClient] = Field(default=None, exclude=True); a
\* client that is given is the LLMClient of this model.
AdapterClients == {None, Some("LLMClient")}

\* LLMClientAdapter(client=...), LLMClientAdapter()
NewAdapter(client) ==
    /\ ~adapter.some
    /\ client.some => phase = "constructed"
    /\ adapter' = Some([client |-> client])
    /\ UNCHANGED <<environ, colab, installed, phase, args, self, ctor_error,
                   userdata_reads, invocations, backend_calls, replies,
                   adapter_chats, model_read>>

\* LLMClientAdapter.chat up to the return of self.client.chat_completion:
\* without a client the attribute access on None raises AttributeError;
\* with one, the converted messages go to chat_completion, whose exception
\* of the availability check passes through.
AdapterChat(messages) ==
    /\ adapter.some
    /\ Len(adapter_chats) < MaxCalls
    /\ IF ~adapter.v.client.some
       THEN /\ adapter_chats' = Append(adapter_chats,
                    [error |-> "AttributeError", messages |-> messages,
                     response |-> None, invocation |-> 0,
                     status |-> "raised"])
            /\ UNCHANGED <<environ, colab, installed, phase, args, self,
                           ctor_error, userdata_reads, invocations,
                           backend_calls, replies>>
       ELSE /\ ChatCompletion(ToDicts(messages))
            /\ adapter_chats' = Append(adapter_chats,
                    [error |-> invocations'[Len(invocations')].error,
                     messages |-> messages,
                     response |-> None,
                     invocation |-> Len(invocations'),
                     status |-> invocations'[Len(invocations')].status])
    /\ UNCHANGED <<adapter, model_read>>

\* The read of LLMClientAdapter.model: return self.client.llm
ReadModel ==
    /\ adapter.some
    /\ model_read' =
          IF adapter.v.client.some
          THEN Some([value |-> self.llm, error |-> ""])
          ELSE Some([value |-> "", error |-> "AttributeError"])
    /\ UNCHANGED <<environ, colab, installed, phase, args, self, ctor_error,
                   userdata_reads, invocations, backend_calls, replies,
                   adapter, adapter_chats>>

\* The LLMClient an adapter wraps: the backend left to the credentials or
\* chosen, everything else left out.
WrappedClientArgs ==
    { [NoArgs EXCEPT !.api_choice = c] :
        c \in {None, Some(<<"o","l","l","a","m","a">>),
               Some(<<"O","P","E","N","A","I">>)} }

NewWrappedClient == \E a \in WrappedClientArgs : Construct(a)

AdapterNext ==
    \/ NewWrappedClient
    \/ \E client \in AdapterClients : NewAdapter(client)
    \/ \E messages \in ChatMessageLists : AdapterChat(messages)
    \/ ReadModel
    \/ \E i \in 1..MaxCalls, content \in Completions : ChatReturns(i, content)
    \/ \E i \in 1..MaxCalls, exception \in ProviderExceptions :
          ChatRaises(i, exception)

AdapterSpec == PlainInit /\ [][AdapterNext]_vars

------------------------------------------------------------------------------
(* The caller assigns to the api_choice of the instance *)

\* The values assigned: no identifier of a backend, and one in another case
AssignedApiChoices ==
    {<<"a","z","u","r","e">>, <<"O","p","e","n","A","I">>}

\* client.api_choice = value
SetApiChoice(value) ==
    /\ phase = "constructed"
    /\ self' = [self EXCEPT !.api_choice = value]
    /\ UNCHANGED <<environ, colab, installed, phase, args, ctor_error,
                   userdata_reads, invocations, backend_calls, replies,
                   adapterVars>>

MutationNext ==
    \/ NewWrappedClient
    \/ \E value \in AssignedApiChoices : SetApiChoice(value)
    \/ \E messages \in MessageLists : BeginChat(messages)
    \/ \E i \in 1..MaxCalls, content \in Completions : ChatReturns(i, content)
    \/ \E i \in 1..MaxCalls, exception \in ProviderExceptions :
          ChatRaises(i, exception)

MutationSpec == PlainInit /\ [][MutationNext]_vars

------------------------------------------------------------------------------
(* Vocabulary of the properties *)

Constructed == phase = "constructed"

\* A credential is present when it is a non-empty string.
Present(credential) == credential.some /\ credential.v # ""

\* Two strings that differ at most in the case of their letters.
EqualIgnoringCase(s, t) ==
    /\ Len(s) = Len(t)
    /\ \A i \in 1..Len(s) :
          \/ s[i] = t[i]
          \/ \E k \in DOMAIN UpperAlphabet :
                {s[i], t[i]} = {UpperAlphabet[k], LowerAlphabet[k]}

\* The explicit api_choice names the backend b, in whatever case.
ExplicitChoiceOf(b) ==
    args.api_choice.some /\ EqualIgnoringCase(args.api_choice.v, b)

\* The explicit api_choice names no backend.
ExplicitChoiceInvalid ==
    /\ args.api_choice.some
    /\ \A b \in {OPENAI, GROQ, OLLAMA} : ~EqualIgnoringCase(args.api_choice.v, b)

\* The calls invocation i has issued.
CallsOf(i) == {k \in DOMAIN backend_calls : backend_calls[k].invocation = i}

\* The backend of the instance cannot be called: no provider client for
\* openai or groq, no ollama module for ollama.
BackendUnavailable ==
    \/ self.api_choice \in {OPENAI, GROQ} /\ ~self.client.some
    \/ self.api_choice = OLLAMA /\ "ollama" \notin installed

------------------------------------------------------------------------------
(* C1 .. C10 *)

\* C1: an instance constructed with no explicit api_choice has the backend
\* of the credential precedence: openai when the OpenAI credential is
\* present (with or without the Groq credential), groq when only the Groq
\* credential is present, ollama when neither is.
C1_AutoPrecedence ==
    (Constructed /\ ~args.api_choice.some) =>
        /\ Present(self.openai_api_key) => self.api_choice = OPENAI
        /\ (~Present(self.openai_api_key) /\ Present(self.groq_api_key))
              => self.api_choice = GROQ
        /\ (~Present(self.openai_api_key) /\ ~Present(self.groq_api_key))
              => self.api_choice = OLLAMA

\* C1, its case: both credentials are in the environment, no api_choice is
\* given and the instance uses openai.
C1_Witness ==
    /\ Constructed
    /\ ~args.api_choice.some
    /\ Present(environ.OPENAI_API_KEY)
    /\ Present(environ.GROQ_API_KEY)
    /\ self.api_choice = OPENAI

\* C2: an explicit api_choice that names a backend never makes the
\* resolution raise ValueError, and every instance constructed with it has
\* that backend as its api_choice, in lower case, whatever credentials are
\* present.
C2_ExplicitWins ==
    \A b \in {OPENAI, GROQ, OLLAMA} :
        (phase # "new" /\ ExplicitChoiceOf(b)) =>
            /\ ctor_error # "ValueError"
            /\ Constructed => self.api_choice = b

\* C2, its case: openai is chosen explicitly while its own credential is
\* absent and the Groq credential is present.
C2_Witness ==
    /\ Constructed
    /\ ExplicitChoiceOf(OPENAI)
    /\ ~self.openai_api_key.some
    /\ Present(self.groq_api_key)
    /\ self.api_choice = OPENAI

\* C3: a construction with an explicit api_choice that names no backend
\* always ends with ValueError, and with no instance.
C3_InvalidChoiceRaisesValueError ==
    (phase # "new" /\ ExplicitChoiceInvalid) =>
        /\ phase = "failed"
        /\ ctor_error = "ValueError"

\* C4: every case variant of a backend's identifier passes the validation,
\* and the api_choice of every instance is one of the three identifiers in
\* lower case, equal to the explicit choice up to case.
C4_CaseInsensitive ==
    /\ (phase # "new" /\ ~ExplicitChoiceInvalid) => ctor_error # "ValueError"
    /\ Constructed =>
          /\ self.api_choice \in {OPENAI, GROQ, OLLAMA}
          /\ args.api_choice.some =>
                EqualIgnoringCase(args.api_choice.v, self.api_choice)

\* C4, its case: "OlLaMa" was given and the instance holds "ollama".
C4_Witness ==
    /\ Constructed
    /\ args.api_choice = Some(<<"O","l","L","a","M","a">>)
    /\ self.api_choice = <<"o","l","l","a","m","a">>

\* C5: an instance constructed with no model has the default model of its
\* backend, however the backend was chosen.
C5_DefaultModel ==
    (Constructed /\ ~args.llm.some) =>
        /\ self.api_choice = OPENAI => self.llm = "gpt-4o-mini"
        /\ self.api_choice = GROQ => self.llm = "moonshotai/kimi-k2-instruct-0905"
        /\ self.api_choice = OLLAMA => self.llm = "llama3.2:1b"

\* C5, its case: groq is chosen by the credentials, no model is given.
C5_Witness ==
    /\ Constructed
    /\ ~args.llm.some
    /\ ~args.api_choice.some
    /\ self.api_choice = GROQ
    /\ self.llm = "moonshotai/kimi-k2-instruct-0905"

\* C6: a model string that is given, the empty string included, is the llm
\* of the instance.
C6_ModelVerbatim ==
    (Constructed /\ args.llm.some) => self.llm = args.llm.v

\* C7: temperature, max_tokens and keep_alive of an instance are the values
\* given, unchanged, and 0.7, 512 and "5m" where none is given, for every
\* backend.
C7_ParametersPassThrough ==
    Constructed =>
        /\ self.temperature =
              IF args.temperature.some THEN args.temperature.v ELSE 7
        /\ self.max_tokens =
              IF args.max_tokens.some THEN args.max_tokens.v ELSE 512
        /\ self.keep_alive =
              IF args.keep_alive.some THEN args.keep_alive.v ELSE "5m"

\* C7, its case: a temperature of 2.5, 100000 tokens and an empty
\* keep_alive are stored as given.
C7_Witness ==
    /\ Constructed
    /\ args.temperature = Some(25)
    /\ self.temperature = 25
    /\ self.max_tokens = 100000
    /\ self.keep_alive = ""

\* C8: on an instance whose backend cannot be called, every invocation of
\* chat_completion has raised RuntimeError and has issued no backend call.
C8_UnavailableBeforeCall ==
    (Constructed /\ BackendUnavailable) =>
        \A i \in DOMAIN invocations :
            /\ invocations[i].status = "raised"
            /\ invocations[i].error = "RuntimeError"
            /\ CallsOf(i) = {}

\* C8, its case: chat_completion was invoked on an ollama instance without
\* the ollama module, and no call was issued.
C8_Witness ==
    /\ Constructed
    /\ self.api_choice = OLLAMA
    /\ "ollama" \notin installed
    /\ Len(invocations) = MaxCalls
    /\ backend_calls = <<>>

\* C9: on an instance for which a cloud backend was chosen explicitly
\* while its credential was missing, the first chat_completion finds no
\* provider client and raises RuntimeError without a backend call.
C9_MissingCredentialNoClient ==
    (/\ Constructed
     /\ \/ ExplicitChoiceOf(OPENAI) /\ ~Present(self.openai_api_key)
        \/ ExplicitChoiceOf(GROQ) /\ ~Present(self.groq_api_key)
     /\ invocations # <<>>)
    =>  /\ ~self.client.some
        /\ invocations[1].status = "raised"
        /\ invocations[1].error = "RuntimeError"
        /\ CallsOf(1) = {}

\* C10: the messages of every backend call are the messages of the
\* invocation that issued it: same length, same order, same roles and
\* contents.
C10_MessagesForwarded ==
    \A k \in DOMAIN backend_calls :
        LET sent == backend_calls[k].call.kwargs.messages
            given == invocations[backend_calls[k].invocation].messages
        IN  /\ Len(sent) = Len(given)
            /\ \A j \in 1..Len(given) :
                  /\ sent[j].role = given[j].role
                  /\ sent[j].content = given[j].content

\* C10, its case: a system message followed by a user message went to a
\* provider client.
C10_Witness ==
    \E k \in DOMAIN backend_calls :
        /\ Len(backend_calls[k].call.kwargs.messages) = 2
        /\ backend_calls[k].call.kwargs.messages[1].role = "system"
        /\ backend_calls[k].call.function = "client.chat.completions.create"

------------------------------------------------------------------------------
(* C11 .. C20 *)

\* The content the provider put into the response to a call of function.
ContentOf(function, response) ==
    IF function = "ollama.chat"
    THEN response.message.content
    ELSE response.choices[1].message.content

\* The provider's answers to the call of invocation i.
RepliesTo(i) == {r \in replies : r.invocation = i}

\* C11: every chat_completion that has returned has returned the content
\* of the provider's response to its call, character for character: the
\* content of the first choice's message for openai and groq, the content
\* of the message for ollama.
C11_ReturnsCompletionUnmodified ==
    \A i \in DOMAIN invocations :
        invocations[i].status = "returned" =>
            /\ Cardinality(RepliesTo(i)) = 1
            /\ \A r \in RepliesTo(i) :
                  /\ r.response.some
                  /\ invocations[i].result =
                        Some(ContentOf(IF self.api_choice = OLLAMA
                                       THEN "ollama.chat"
                                       ELSE "client.chat.completions.create",
                                       r.response.v))

\* C11, its case: a groq instance has returned a completion with blanks
\* around it and one without.
C11_Witness ==
    /\ Constructed
    /\ Len(invocations) = 2
    /\ invocations[1].result = Some(" Hi. ")
    /\ invocations[2].result = Some("Hi.")
    /\ self.api_choice = GROQ

\* C12: every chat_completion whose backend call raised has failed with
\* the kind BackendError, and has returned nothing.
C12_ProviderErrorWrapped ==
    \A i \in DOMAIN invocations :
        (\E r \in RepliesTo(i) : r.exception # "") =>
            /\ invocations[i].status = "raised"
            /\ invocations[i].error = "BackendError"
            /\ ~invocations[i].result.some

\* The names of the keyword arguments of a call.
Keywords(kwargs) == DOMAIN kwargs

\* C13: every call to ollama has stream off, the model, keep_alive,
\* temperature and max_tokens (as num_predict) of the instance and the
\* sampling options 1.2, 10 and 0.5; every call to openai or groq has the
\* model, the messages, temperature and max_tokens of the instance and no
\* other keyword, so no keep_alive.
C13_CallParameters ==
    \A k \in DOMAIN backend_calls :
        LET c == backend_calls[k].call
        IN  IF self.api_choice = OLLAMA
            THEN /\ c.function = "ollama.chat"
                 /\ Keywords(c.kwargs) =
                       {"model", "messages", "stream", "options", "keep_alive"}
                 /\ c.kwargs.stream = FALSE
                 /\ c.kwargs.model = self.llm
                 /\ c.kwargs.keep_alive = self.keep_alive
                 /\ Keywords(c.kwargs.options) =
                       {"temperature", "num_predict", "repeat_penalty",
                        "top_k", "top_p"}
                 /\ c.kwargs.options.temperature = self.temperature
                 /\ c.kwargs.options.num_predict = self.max_tokens
                 /\ c.kwargs.options.repeat_penalty = 12
                 /\ c.kwargs.options.top_k = 10
                 /\ c.kwargs.options.top_p = 5
            ELSE /\ c.function = "client.chat.completions.create"
                 /\ Keywords(c.kwargs) =
                       {"model", "messages", "temperature", "max_tokens"}
                 /\ c.kwargs.model = self.llm
                 /\ c.kwargs.temperature = self.temperature
                 /\ c.kwargs.max_tokens = self.max_tokens

\* C13, its case: ollama was called for an instance with keep_alive "10m",
\* temperature 0 and one token.
C13_Witness ==
    /\ Constructed
    /\ self.api_choice = OLLAMA
    /\ self.keep_alive = "10m"
    /\ \E k \in DOMAIN backend_calls :
          /\ backend_calls[k].call.kwargs.keep_alive = "10m"
          /\ backend_calls[k].call.kwargs.options.temperature = 0
          /\ backend_calls[k].call.kwargs.options.num_predict = 1

\* The secondary source has nothing for key: google.colab.userdata cannot
\* be imported, or its lookup of the key raises.
SecondaryFails(key) ==
    ~colab.userdata_importable \/ colab.userdata[key].raises

\* C14: no construction ends with an exception of the secondary source,
\* and an instance constructed in the hosted runtime with no explicit
\* api_choice, no credential in the environment and a secondary source
\* that fails for both keys has no credential and the backend ollama.
C14_SecondarySourceBestEffort ==
    /\ ctor_error # "SecretNotFoundError"
    /\ (/\ phase # "new"
        /\ ColabDetected(environ, colab)
        /\ ~args.api_choice.some
        /\ ~environ.OPENAI_API_KEY.some /\ ~environ.GROQ_API_KEY.some
        /\ SecondaryFails(OPENAI_API_KEY) /\ SecondaryFails(GROQ_API_KEY))
       =>  /\ Constructed
           /\ ~self.openai_api_key.some /\ ~self.groq_api_key.some
           /\ self.api_choice = OLLAMA

\* C15: an instance holds no credential but that of its backend: an ollama
\* instance none, an openai instance no Groq credential, a groq instance no
\* OpenAI credential; and an instance whose cloud backend the credentials
\* chose holds the credential of that backend.
C15_OneCredentialAttached ==
    Constructed =>
        /\ self.api_choice = OLLAMA =>
              ~Present(self.openai_api_key) /\ ~Present(self.groq_api_key)
        /\ self.api_choice = OPENAI =>
              /\ ~Present(self.groq_api_key)
              /\ ~args.api_choice.some => Present(self.openai_api_key)
        /\ self.api_choice = GROQ =>
              /\ ~Present(self.openai_api_key)
              /\ ~args.api_choice.some => Present(self.groq_api_key)

\* C16: the read of the model property of an adapter constructed without
\* a client ends with ValueError.
C16_AdapterWithoutClientValueError ==
    (adapter.some /\ ~adapter.v.client.some /\ model_read.some) =>
        model_read.v.error = "ValueError"

\* The LLMClientAdapter.chat invocations that reached chat_completion.
ChatsWithClient == {k \in DOMAIN adapter_chats : adapter_chats[k].invocation # 0}

\* C17: every LLMClientAdapter.chat on an adapter with a client has made
\* one chat_completion invocation of its own, with one role/content dict
\* per message in the order given, the empty list included, and one that
\* has returned has returned a message of role "assistant" whose content
\* is the string chat_completion returned.
C17_AdapterChat ==
    /\ Len(invocations) = Cardinality(ChatsWithClient)
    /\ \A k \in ChatsWithClient :
          LET chat == adapter_chats[k]
              inv == invocations[chat.invocation]
          IN  /\ \A l \in ChatsWithClient :
                    adapter_chats[l].invocation = chat.invocation => l = k
              /\ Len(inv.messages) = Len(chat.messages)
              /\ \A j \in 1..Len(chat.messages) :
                    /\ Keywords(inv.messages[j]) = {"role", "content"}
                    /\ inv.messages[j].role = chat.messages[j].role
                    /\ inv.messages[j].content = chat.messages[j].content
              /\ chat.status = "returned" <=> inv.status = "returned"
              /\ chat.status = "returned" =>
                    /\ chat.response.some
                    /\ chat.response.v.message.role = "assistant"
                    /\ chat.response.v.message.content = inv.result.v

\* C17, its case: the adapter has returned the answers to a chat of two
\* messages and to a chat of none.
C17_Witness ==
    /\ Len(adapter_chats) = 2
    /\ adapter_chats[1].messages = <<>>
    /\ adapter_chats[1].status = "returned"
    /\ Len(adapter_chats[2].messages) = 2
    /\ adapter_chats[2].status = "returned"
    /\ adapter_chats[2].response.v.message.content = " Hi. "

\* C18: a chat_completion that starts while the api_choice of the instance
\* is none of the three identifiers raises ValueError and issues no backend
\* call.
C18_InvalidChoiceAtDispatch ==
    [][(/\ phase = "constructed"
        /\ self.api_choice \notin {OPENAI, GROQ, OLLAMA}
        /\ Len(invocations') = Len(invocations) + 1)
       =>  /\ invocations'[Len(invocations')].status = "raised"
           /\ invocations'[Len(invocations')].error = "ValueError"
           /\ backend_calls' = backend_calls]_vars

\* C18, its case: "OpenAI" was assigned to the api_choice of an openai
\* instance with a client, and chat_completion has raised ValueError.
C18_Witness ==
    /\ Constructed
    /\ self.client.some
    /\ self.api_choice = <<"O","p","e","n","A","I">>
    /\ Len(invocations) = 2
    /\ invocations[1].status = "returned"
    /\ invocations[2].error = "ValueError"
    /\ Len(backend_calls) = 1

\* The availability check let invocation i pass.
PassedCheck(i) == invocations[i].status # "raised" \/ RepliesTo(i) # {}

\* C19: an invocation on a backend that can be called has issued exactly
\* one backend call, to the backend of the instance, whatever the messages
\* and whether the call has failed or not; an invocation on a backend that
\* cannot be called has issued none; there is no other backend call.
C19_OneCallPerInvocation ==
    Constructed =>
        /\ \A i \in DOMAIN invocations :
              IF BackendUnavailable
              THEN ~PassedCheck(i) /\ CallsOf(i) = {}
              ELSE /\ PassedCheck(i)
                   /\ Cardinality(CallsOf(i)) = 1
                   /\ \A k \in CallsOf(i) :
                         /\ backend_calls[k].call.function =
                               IF self.api_choice = OLLAMA THEN "ollama.chat"
                               ELSE "client.chat.completions.create"
                         /\ backend_calls[k].call.client =
                               IF self.api_choice = OLLAMA THEN None
                               ELSE self.client
        /\ \A k \in DOMAIN backend_calls :
              backend_calls[k].invocation \in DOMAIN invocations

\* C19, its case: ollama was called with no message, the call has failed,
\* and it was the only call.
C19_Witness ==
    /\ Constructed
    /\ self.api_choice = OLLAMA
    /\ Len(invocations) = 1
    /\ invocations[1].messages = <<>>
    /\ invocations[1].status = "raised"
    /\ invocations[1].error = "RateLimitError"
    /\ Len(backend_calls) = 1

\* C20: no step that follows the construction changes an attribute of the
\* instance: api_choice, llm, temperature, max_tokens, keep_alive, both
\* credentials and the provider client stay what __init__ made them.
C20_ChatNeverChangesInstance ==
    [][phase = "constructed" => (phase' = "constructed" /\ self' = self)]_vars

\* C20, its case: on an instance with a provider client one chat_completion
\* has returned and one has failed in the provider.
C20_Witness ==
    /\ Constructed
    /\ self.client.some
    /\ \E i, j \in DOMAIN invocations :
          /\ invocations[i].status = "returned"
          /\ invocations[j].error = "RateLimitError"

------------------------------------------------------------------------------
(* C21 .. C22 *)

\* C21: whatever the order in which invocations on one instance start and
\* end, each invocation's call carries its own messages with the model and
\* the parameters of the instance, an invocation that waits has no outcome
\* yet, and one that has ended after its call has ended with the content
\* or the exception of the one reply to its own call.
C21_NoInterference ==
    Constructed =>
        \A i \in DOMAIN invocations :
            /\ \A k \in CallsOf(i) :
                  LET kw == backend_calls[k].call.kwargs
                  IN  /\ kw.messages = invocations[i].messages
                      /\ kw.model = self.llm
                      /\ IF self.api_choice = OLLAMA
                         THEN /\ kw.options.temperature = self.temperature
                              /\ kw.options.num_predict = self.max_tokens
                              /\ kw.keep_alive = self.keep_alive
                         ELSE /\ kw.temperature = self.temperature
                              /\ kw.max_tokens = self.max_tokens
            /\ Cardinality(RepliesTo(i)) <= 1
            /\ invocations[i].status = "calling" =>
                  RepliesTo(i) = {} /\ ~invocations[i].result.some
            /\ invocations[i].status = "returned" =>
                  /\ RepliesTo(i) # {}
                  /\ \A r \in RepliesTo(i) :
                        /\ r.response.some
                        /\ invocations[i].result =
                              Some(ContentOf(IF self.api_choice = OLLAMA
                                             THEN "ollama.chat"
                                             ELSE "client.chat.completions.create",
                                             r.response.v))
            /\ \A r \in RepliesTo(i) :
                  r.exception # "" =>
                      /\ invocations[i].status = "raised"
                      /\ invocations[i].error = r.exception
                      /\ ~invocations[i].result.some

\* C21, its case: two invocations with different messages were waiting for
\* the provider at once; the second has returned its completion while the
\* first still waits.
C21_Witness ==
    /\ Constructed
    /\ Len(invocations) = 2
    /\ Len(backend_calls) = 2
    /\ invocations[1].messages # invocations[2].messages
    /\ invocations[1].status = "calling"
    /\ invocations[2].status = "returned"
    /\ invocations[2].result = Some(" Hi. ")

\* The keys userdata.get was called with.
KeysRead == {userdata_reads[k] : k \in DOMAIN userdata_reads}

\* The backend that the credentials of the environment and the explicit
\* choice give.
BackendByEnvironment(b) ==
    IF args.api_choice.some THEN EqualIgnoringCase(args.api_choice.v, b)
    ELSE b = IF Present(environ.OPENAI_API_KEY) THEN OPENAI
             ELSE IF Present(environ.GROQ_API_KEY) THEN GROQ
             ELSE OLLAMA

\* C22: userdata.get is called for a key only if the environment has
\* nothing for that key and the hosted runtime is detected, and at most
\* once; a credential of the environment is the credential of the
\* instance; outside the hosted runtime nothing is read, and the
\* credentials and the backend of the instance are those the environment
\* and the explicit choice give.
C22_SecondaryOnlyAsFallback ==
    /\ \A key \in KeysRead :
          /\ ~environ[key].some
          /\ ColabDetected(environ, colab)
    /\ Len(userdata_reads) = Cardinality(KeysRead)
    /\ Constructed =>
          /\ environ.OPENAI_API_KEY.some =>
                self.openai_api_key = environ.OPENAI_API_KEY
          /\ environ.GROQ_API_KEY.some =>
                self.groq_api_key = environ.GROQ_API_KEY
    /\ ~ColabDetected(environ, colab) =>
          /\ userdata_reads = <<>>
          /\ Constructed =>
                /\ self.openai_api_key = environ.OPENAI_API_KEY
                /\ self.groq_api_key = environ.GROQ_API_KEY
                /\ BackendByEnvironment(self.api_choice)

\* C22, its case: in the hosted runtime, with both secrets stored and the
\* OpenAI key in the environment, the Groq key alone was read from the
\* secret store and the OpenAI key is that of the environment.
C22_Witness ==
    /\ Constructed
    /\ ColabDetected(environ, colab)
    /\ ~colab.userdata[OPENAI_API_KEY].raises
    /\ environ.OPENAI_API_KEY = Some("sk-env")
    /\ ~environ.GROQ_API_KEY.some
    /\ userdata_reads = <<GROQ_API_KEY>>
    /\ self.openai_api_key = Some("sk-env")
    /\ self.groq_api_key = Some("gsk-colab")

====
